---- MODULE Spec2Model ----
(***************************************************************************)
(* Model of src/index.ts: the Observer / Observable / Subscription triad.  *)
(*                                                                         *)
(* One Observable is constructed, by Observable.from(values) or by         *)
(* new Observable(fn), and then subscribed to.  The subscribe function of  *)
(* Observable.from is the code of from; the one given to the constructor   *)
(* is arbitrary producer code: it makes any calls on the Observer it is    *)
(* given, returns its teardown at any point, makes further calls from      *)
(* callbacks that run after subscribe() has returned, and may or may not   *)
(* catch what a handler throws.  Handlers are consumer code: while one     *)
(* executes it may call unsubscribe() of any Subscription already handed   *)
(* out, and it ends by returning or by throwing.                           *)
(*                                                                         *)
(* Spec follows one subscribe() call with every producer and every handler *)
(* record; SpecMulti follows up to MaxSubs subscribe() calls on the        *)
(* Observable of the usage code, Observable.from(requestsMock).            *)
(***************************************************************************)
EXTENDS Integers, Sequences, FiniteSets, TLC

\* Bounds of the model
MaxVal == 2      \* values emitted are 1..MaxVal
MaxLen == 2      \* longest array given to Observable.from
MaxOps == 3      \* calls a custom subscribe function makes on one Observer
MaxSubs == 2     \* subscribe() calls on the Observable (SpecMulti)
MaxUnsub == 2    \* subscription.unsubscribe() calls per Subscription

VARIABLES
    observable,      \* the Observable: its _subscribeFn, as a program
    nObs,            \* number of Observers constructed so far
    handlers,        \* handlers[i]: the handlers present in Observer i's record
    isUnsubscribed,  \* isUnsubscribed[i]: Observer i's closed flag
    _unsubscribe,    \* _unsubscribe[i]: TRUE when the teardown is installed
    phase,           \* phase[i]: where the subscribe() call that made i stands
    calls,           \* calls[i]: the calls the subscribe function made on i
    hnd,             \* the handler that is executing, or NoHandler
    trace,           \* trace[i]: what happened to Observer i, in order
    subscribeCalls,  \* number of subscribe() calls made
    fnArgs,          \* the Observers _subscribeFn was invoked with, in order
    unsubCalls       \* unsubCalls[i]: subscription.unsubscribe() calls on i

vars == <<observable, nObs, handlers, isUnsubscribed, _unsubscribe, phase, calls,
          hnd, trace, subscribeCalls, fnArgs, unsubCalls>>

Ids == 1..MaxSubs
Values == 1..MaxVal
HandlerNames == {"next", "error", "complete"}

Op(s, v) == [sig |-> s, val |-> v]
Ev(e, v) == [ev |-> e, val |-> v]

\* The calls a subscribe function can make on the Observer it is given; the
\* value given to error() is opaque to Observer, one value stands for all
Ops == {Op("next", v) : v \in Values}
         \cup {Op("error", 0), Op("complete", 0), Op("unsubscribe", 0)}

SeqsUpTo(S, n) == UNION {[1..k -> S] : k \in 0..n}

NoHandler == [obs |-> 0, sig |-> "none"]
NoObservable == [kind |-> "none", values |-> <<>>]

\* ---- reading the trace -------------------------------------------------
Count(s, e) == Cardinality({k \in DOMAIN s : s[k].ev = e})
IsHandlerEv(x) == x.ev \in HandlerNames
HandlerEvents(s) == SelectSeq(s, IsHandlerEv)
IsNextEv(x) == x.ev = "next"
NextLog(s) == [k \in DOMAIN SelectSeq(s, IsNextEv) |-> SelectSeq(s, IsNextEv)[k].val]
Positions(s, e) == {k \in DOMAIN s : s[k].ev = e}
TeardownCount(i) == Count(trace[i], "teardown")

Last(s) == s[Len(s)]

\* ---- Observer ----------------------------------------------------------
\* a faulty unsubscribe: the flag is flipped instead of set
unsubscribe_toggle(i) ==
    /\ isUnsubscribed' = [isUnsubscribed EXCEPT ![i] = ~@]
    /\ trace' = [trace EXCEPT ![i] =
                    @ \o <<Ev("unsubscribe", 0)>>
                      \o (IF _unsubscribe[i] THEN <<Ev("teardown", 0)>> ELSE <<>>)]
    /\ UNCHANGED _unsubscribe

\* a faulty unsubscribe: the teardown is skipped on an Observer already closed
unsubscribe_guarded(i) ==
    /\ isUnsubscribed' = [isUnsubscribed EXCEPT ![i] = TRUE]
    /\ trace' = [trace EXCEPT ![i] =
                    @ \o <<Ev("unsubscribe", 0)>>
                      \o (IF _unsubscribe[i] /\ ~isUnsubscribed[i]
                          THEN <<Ev("teardown", 0)>> ELSE <<>>)]
    /\ UNCHANGED _unsubscribe

\* a faulty unsubscribe: the closed flag is shared by all Observers
unsubscribe_shared(i) ==
    /\ isUnsubscribed' = [j \in Ids |-> TRUE]
    /\ trace' = [trace EXCEPT ![i] =
                    @ \o <<Ev("unsubscribe", 0)>>
                      \o (IF _unsubscribe[i] THEN <<Ev("teardown", 0)>> ELSE <<>>)]
    /\ UNCHANGED _unsubscribe

\* a faulty unsubscribe: the Observer is not closed while a handler executes
unsubscribe_notInHandler(i) ==
    /\ isUnsubscribed' = [isUnsubscribed EXCEPT ![i] = (hnd = NoHandler \/ @)]
    /\ trace' = [trace EXCEPT ![i] =
                    @ \o <<Ev("unsubscribe", 0)>>
                      \o (IF _unsubscribe[i] THEN <<Ev("teardown", 0)>> ELSE <<>>)]
    /\ UNCHANGED _unsubscribe

\* Observer.unsubscribe
unsubscribe(i) ==
    /\ isUnsubscribed' = [isUnsubscribed EXCEPT ![i] = TRUE]
    /\ trace' = [trace EXCEPT ![i] =
                    @ \o <<Ev("unsubscribe", 0)>>
                      \o (IF _unsubscribe[i] THEN <<Ev("teardown", 0)>> ELSE <<>>)]
    /\ UNCHANGED _unsubscribe

\* a faulty setUnsubscribe: installing the teardown reopens the Observer
setUnsubscribe_reopen(i) ==
    /\ _unsubscribe' = [_unsubscribe EXCEPT ![i] = TRUE]
    /\ isUnsubscribed' = [isUnsubscribed EXCEPT ![i] = FALSE]
    /\ trace' = [trace EXCEPT ![i] = Append(@, Ev("setUnsubscribe", 0))]
    /\ UNCHANGED hnd

\* Observer.setUnsubscribe
setUnsubscribe(i) ==
    /\ _unsubscribe' = [_unsubscribe EXCEPT ![i] = TRUE]
    /\ trace' = [trace EXCEPT ![i] = Append(@, Ev("setUnsubscribe", 0))]
    /\ UNCHANGED <<isUnsubscribed, hnd>>

\* the call this.handlers.X(v): the handler starts executing
InvokeHandler(i, s, v) ==
    /\ hnd' = [obs |-> i, sig |-> s]
    /\ trace' = [trace EXCEPT ![i] = Append(@, Ev(s, v))]
    /\ UNCHANGED <<isUnsubscribed, _unsubscribe>>

NoEffect == UNCHANGED <<isUnsubscribed, _unsubscribe, trace, hnd>>

\* a faulty next: the closed flag is not consulted
next_unguarded(i, v) ==
    IF "next" \in handlers[i]
    THEN InvokeHandler(i, "next", v)
    ELSE NoEffect

\* Observer.next
next(i, v) ==
    IF ~isUnsubscribed[i] /\ "next" \in handlers[i]
    THEN InvokeHandler(i, "next", v)
    ELSE NoEffect

\* a faulty error: without an error handler the Observer is left open
error_leftOpen(i, e) ==
    IF ~isUnsubscribed[i] /\ "error" \in handlers[i]
    THEN InvokeHandler(i, "error", e)
    ELSE NoEffect

\* Observer.error, up to the handler call
error(i, e) ==
    IF ~isUnsubscribed[i]
    THEN IF "error" \in handlers[i]
         THEN InvokeHandler(i, "error", e)
         ELSE unsubscribe(i) /\ UNCHANGED hnd
    ELSE NoEffect

\* a faulty complete: the Observer is closed before the handler is invoked
complete_closesFirst(i) ==
    IF ~isUnsubscribed[i]
    THEN IF "complete" \in handlers[i]
         THEN /\ hnd' = [obs |-> i, sig |-> "complete"]
              /\ isUnsubscribed' = [isUnsubscribed EXCEPT ![i] = TRUE]
              /\ trace' = [trace EXCEPT ![i] =
                              @ \o <<Ev("unsubscribe", 0)>>
                                \o (IF _unsubscribe[i] THEN <<Ev("teardown", 0)>> ELSE <<>>)
                                \o <<Ev("complete", 0)>>]
              /\ UNCHANGED _unsubscribe
         ELSE unsubscribe(i) /\ UNCHANGED hnd
    ELSE NoEffect

\* a faulty complete: a closed Observer is closed again, teardown included
complete_recloses(i) ==
    IF ~isUnsubscribed[i] /\ "complete" \in handlers[i]
    THEN InvokeHandler(i, "complete", 0)
    ELSE unsubscribe(i) /\ UNCHANGED hnd

\* Observer.complete, up to the handler call
complete(i) ==
    IF ~isUnsubscribed[i]
    THEN IF "complete" \in handlers[i]
         THEN InvokeHandler(i, "complete", 0)
         ELSE unsubscribe(i) /\ UNCHANGED hnd
    ELSE NoEffect

\* what follows the handler call in next / error / complete
AfterHandler(i, s) ==
    IF s \in {"error", "complete"}
    THEN unsubscribe(i)
    ELSE UNCHANGED <<isUnsubscribed, _unsubscribe, trace>>

\* one call of the subscribe function on Observer i
Call(i, op) ==
    CASE op.sig = "next" -> next(i, op.val)
      [] op.sig = "error" -> error(i, op.val)
      [] op.sig = "complete" -> complete(i)
      [] op.sig = "unsubscribe" -> unsubscribe(i) /\ UNCHANGED hnd

\* ---- Observable --------------------------------------------------------
\* a faulty from: the values are emitted last to first
FromBody_reversed(values) ==
    [k \in 1..(Len(values) + 1) |->
        IF k <= Len(values) THEN Op("next", values[Len(values) + 1 - k])
        ELSE Op("complete", 0)]

\* a faulty from: complete() is called before the values are emitted
FromBody_completeFirst(values) ==
    [k \in 1..(Len(values) + 1) |->
        IF k = 1 THEN Op("complete", 0) ELSE Op("next", values[k - 1])]

\* the calls made by the subscribe function that Observable.from builds
FromBody(values) ==
    [k \in 1..(Len(values) + 1) |->
        IF k <= Len(values) THEN Op("next", values[k]) ELSE Op("complete", 0)]

\* a faulty subscribe: the Observer of the previous call is used again
NewObserver_reused == IF nObs = 0 THEN 1 ELSE nObs

\* the Observer that subscribe() constructs
NewObserver == nObs + 1

\* no subscribe() call is in progress and no handler is executing
Idle == hnd = NoHandler /\ \A i \in Ids : phase[i] # "running"

Init ==
    /\ observable = NoObservable
    /\ nObs = 0
    /\ handlers = [i \in Ids |-> {}]
    /\ isUnsubscribed = [i \in Ids |-> FALSE]
    /\ _unsubscribe = [i \in Ids |-> FALSE]
    /\ phase = [i \in Ids |-> "none"]
    /\ calls = [i \in Ids |-> <<>>]
    /\ hnd = NoHandler
    /\ trace = [i \in Ids |-> <<>>]
    /\ subscribeCalls = 0
    /\ fnArgs = <<>>
    /\ unsubCalls = [i \in Ids |-> 0]

\* Observable.from(values)
from(values) ==
    /\ observable.kind = "none"
    /\ observable' = [kind |-> "from", values |-> values]
    /\ UNCHANGED <<nObs, handlers, isUnsubscribed, _unsubscribe, phase, calls,
                   hnd, trace, subscribeCalls, fnArgs, unsubCalls>>

\* new Observable(fn), fn any producer code
NewObservable ==
    /\ observable.kind = "none"
    /\ observable' = [kind |-> "custom", values |-> <<>>]
    /\ UNCHANGED <<nObs, handlers, isUnsubscribed, _unsubscribe, phase, calls,
                   hnd, trace, subscribeCalls, fnArgs, unsubCalls>>

\* a faulty subscribe: the teardown is in place before the subscribe function
\* runs
subscribe_installFirst(h) ==
    /\ observable.kind # "none"
    /\ Idle
    /\ nObs < MaxSubs
    /\ LET i == NewObserver IN
         /\ handlers' = [handlers EXCEPT ![i] = h]
         /\ isUnsubscribed' = [isUnsubscribed EXCEPT ![i] = FALSE]
         /\ _unsubscribe' = [_unsubscribe EXCEPT ![i] = TRUE]
         /\ phase' = [phase EXCEPT ![i] = "running"]
         /\ fnArgs' = Append(fnArgs, i)
    /\ nObs' = nObs + 1
    /\ subscribeCalls' = subscribeCalls + 1
    /\ UNCHANGED <<observable, calls, hnd, trace, unsubCalls>>

\* Observable.subscribe(h), up to the call of _subscribeFn
subscribe(h) ==
    /\ observable.kind # "none"
    /\ Idle
    /\ nObs < MaxSubs
    /\ LET i == NewObserver IN
         /\ handlers' = [handlers EXCEPT ![i] = h]
         /\ isUnsubscribed' = [isUnsubscribed EXCEPT ![i] = FALSE]
         /\ _unsubscribe' = [_unsubscribe EXCEPT ![i] = FALSE]
         /\ phase' = [phase EXCEPT ![i] = "running"]
         /\ fnArgs' = Append(fnArgs, i)
    /\ nObs' = nObs + 1
    /\ subscribeCalls' = subscribeCalls + 1
    /\ UNCHANGED <<observable, calls, hnd, trace, unsubCalls>>

\* the call `op` is what the running subscribe function does next
FnMayCall(i, op) ==
    observable.kind = "from" =>
        /\ Len(calls[i]) < Len(FromBody(observable.values))
        /\ op = FromBody(observable.values)[Len(calls[i]) + 1]

\* the running subscribe function has reached its return statement
FnMayReturn(i) ==
    observable.kind = "from" => Len(calls[i]) = Len(FromBody(observable.values))

\* the subscribe function, running inside subscribe(), calls the Observer
SubscribeFnCall(i, op) ==
    /\ phase[i] = "running"
    /\ hnd = NoHandler
    /\ FnMayCall(i, op)
    /\ Call(i, op)
    /\ calls' = [calls EXCEPT ![i] = Append(@, op)]
    /\ UNCHANGED <<observable, nObs, handlers, phase, subscribeCalls, fnArgs,
                   unsubCalls>>

\* the subscribe function returns its teardown; subscribe() installs it and
\* returns the Subscription
subscribeReturn(i) ==
    /\ phase[i] = "running"
    /\ hnd = NoHandler
    /\ FnMayReturn(i)
    /\ setUnsubscribe(i)
    /\ phase' = [phase EXCEPT ![i] = "returned"]
    /\ UNCHANGED <<observable, nObs, handlers, calls, subscribeCalls, fnArgs,
                   unsubCalls>>

\* a callback set up by a custom subscribe function runs after subscribe()
\* has returned, and calls the Observer
DeferredCall(i, op) ==
    /\ Idle
    /\ observable.kind = "custom"
    /\ phase[i] = "returned"
    /\ Call(i, op)
    /\ calls' = [calls EXCEPT ![i] = Append(@, op)]
    /\ UNCHANGED <<observable, nObs, handlers, phase, subscribeCalls, fnArgs,
                   unsubCalls>>

\* the executing handler returns
HandlerReturn ==
    /\ hnd # NoHandler
    /\ hnd' = NoHandler
    /\ AfterHandler(hnd.obs, hnd.sig)
    /\ UNCHANGED <<observable, nObs, handlers, phase, calls, subscribeCalls,
                   fnArgs, unsubCalls>>

\* the executing handler throws: Observer catches nothing, so the rest of
\* next / error / complete is skipped; inside subscribe() the exception
\* reaches the subscribe function, and subscribe() itself unless it is caught
HandlerThrow(caught) ==
    /\ hnd # NoHandler
    /\ caught => (phase[hnd.obs] = "running" /\ observable.kind = "custom")
    /\ hnd' = NoHandler
    /\ trace' = [trace EXCEPT ![hnd.obs] = Append(@, Ev("throw", 0))]
    /\ phase' = IF phase[hnd.obs] = "running" /\ ~caught
                THEN [phase EXCEPT ![hnd.obs] = "failed"]
                ELSE phase
    /\ UNCHANGED <<observable, nObs, handlers, isUnsubscribed, _unsubscribe,
                   calls, subscribeCalls, fnArgs, unsubCalls>>

\* subscription.unsubscribe(), called by the consumer: from its own code
\* after subscribe(), or from inside a handler
SubscriptionUnsubscribe(j) ==
    /\ phase[j] = "returned"
    /\ Idle \/ hnd # NoHandler
    /\ unsubscribe(j)
    /\ UNCHANGED hnd
    /\ unsubCalls' = [unsubCalls EXCEPT ![j] = @ + 1]
    /\ UNCHANGED <<observable, nObs, handlers, phase, calls, subscribeCalls,
                   fnArgs>>

\* one Observable, one subscribe() call
Next ==
    \/ \E values \in SeqsUpTo(Values, MaxLen) : from(values)
    \/ NewObservable
    \/ \E h \in SUBSET HandlerNames : nObs = 0 /\ subscribe(h)
    \/ \E i \in Ids, op \in Ops :
          /\ observable.kind = "custom" => Len(calls[i]) < MaxOps
          /\ SubscribeFnCall(i, op)
    \/ \E i \in Ids : subscribeReturn(i)
    \/ \E i \in Ids, op \in Ops : Len(calls[i]) < MaxOps /\ DeferredCall(i, op)
    \/ HandlerReturn
    \/ \E caught \in BOOLEAN : HandlerThrow(caught)
    \/ \E j \in Ids : unsubCalls[j] < MaxUnsub /\ SubscriptionUnsubscribe(j)

Spec == Init /\ [][Next]_vars

\* the two requests of requestsMock, by their position in the array
requestsMock == <<1, 2>>

\* the Observable of the usage code, Observable.from(requestsMock),
\* subscribed to up to MaxSubs times
NextMulti ==
    \/ from(requestsMock)
    \/ \E h \in SUBSET HandlerNames : subscribe(h)
    \/ \E i \in Ids, op \in Ops : SubscribeFnCall(i, op)
    \/ \E i \in Ids : subscribeReturn(i)
    \/ HandlerReturn
    \/ HandlerThrow(FALSE)
    \/ \E j \in Ids : unsubCalls[j] < MaxUnsub /\ SubscriptionUnsubscribe(j)

SpecMulti == Init /\ [][NextMulti]_vars

\* ---- claims -------------------------------------------------------------
\* the calls of `calls[i]` are exactly next(a), error(e), next(b)
IsScenarioC(cs) ==
    /\ Len(cs) = 3
    /\ cs[1].sig = "next" /\ cs[2].sig = "error" /\ cs[3].sig = "next"

\* the stream of Observer j has ended by error() or complete(): the Observer
\* is closed and nobody called unsubscribe() on it directly
EndedBySignal(j) ==
    /\ isUnsubscribed[j]
    /\ unsubCalls[j] = 0
    /\ \A k \in DOMAIN calls[j] : calls[j][k].sig # "unsubscribe"

\* C1 (as stated): once the Observer is closed and subscribe() has returned
\* the teardown has run exactly once, and it never runs more than once.
C1_TeardownExactlyOnce ==
    \A i \in Ids :
        /\ (phase[i] = "returned" /\ isUnsubscribed[i]) => TeardownCount(i) = 1
        /\ TeardownCount(i) <= 1

\* C2 (as stated): the error handler and the complete handler of an Observer
\* are invoked at most once in total.
C2_AtMostOneTerminal ==
    \A i \in Ids : Count(trace[i], "error") + Count(trace[i], "complete") <= 1

\* C3: a next(v) call on a closed Observer invokes no handler; and when the
\* subscribe function has called next(a), error(e), next(b) on an Observer
\* with a next and an error handler (handlers that return, nobody having
\* unsubscribed), the handlers were invoked with a, then with e, and no more.
C3_PostCloseSilence ==
    /\ [][\A i \in Ids :
            (/\ isUnsubscribed[i]
             /\ Len(calls'[i]) = Len(calls[i]) + 1
             /\ Last(calls'[i]).sig = "next")
            => (trace'[i] = trace[i] /\ hnd' = hnd)]_vars
    /\ [](\A i \in Ids :
            (/\ IsScenarioC(calls[i])
             /\ {"next", "error"} \subseteq handlers[i]
             /\ Count(trace[i], "throw") = 0
             /\ unsubCalls[i] = 0)
            => HandlerEvents(trace[i]) =
                 <<Ev("next", calls[i][1].val), Ev("error", calls[i][2].val)>>)

C3_Witness ==
    \E i \in Ids :
        /\ IsScenarioC(calls[i])
        /\ calls[i][1].val # calls[i][3].val
        /\ {"next", "error"} \subseteq handlers[i]
        /\ Count(trace[i], "throw") = 0
        /\ unsubCalls[i] = 0
        /\ isUnsubscribed[i]
        /\ Len(HandlerEvents(trace[i])) = 2

\* C4: the closed flag of an Observer, once true, stays true in every step.
C4_ClosedMonotonic ==
    [][\A i \in Ids : isUnsubscribed[i] => isUnsubscribed'[i]]_vars

\* a closed Observer on which setUnsubscribe, a further call of the subscribe
\* function and two unsubscribe() calls have acted
C4_Witness ==
    \E i \in Ids :
        /\ isUnsubscribed[i]
        /\ _unsubscribe[i]
        /\ unsubCalls[i] = 2
        /\ Len(calls[i]) >= 2
        /\ calls[i][1].sig = "complete"

\* C5: after subscribe() to Observable.from(vs) with a next handler has
\* returned, the values the handler received are vs, in order.
C5_FromOrder ==
    \A i \in Ids :
        (/\ observable.kind = "from"
         /\ phase[i] = "returned"
         /\ "next" \in handlers[i])
        => NextLog(trace[i]) = observable.values

C5_Witness ==
    \E i \in Ids :
        /\ observable.kind = "from"
        /\ phase[i] = "returned"
        /\ "next" \in handlers[i]
        /\ Len(observable.values) >= 2
        /\ observable.values[1] # observable.values[2]
        /\ NextLog(trace[i]) = observable.values

\* C6: for Observable.from(vs) the error handler is never invoked; the
\* complete handler is invoked at most once, only after every element of vs
\* has been passed to next and before the teardown is installed; and it has
\* been invoked exactly once when subscribe() has returned.
C6_FromCompletes ==
    \A i \in Ids :
        observable.kind = "from" =>
            /\ Count(trace[i], "error") = 0
            /\ Count(trace[i], "complete") <= 1
            /\ Count(trace[i], "complete") = 1 =>
                 /\ Len(calls[i]) = Len(observable.values) + 1
                 /\ \A k \in 1..Len(observable.values) :
                        calls[i][k] = Op("next", observable.values[k])
                 /\ \A c \in Positions(trace[i], "complete") :
                        /\ \A n \in Positions(trace[i], "next") : n < c
                        /\ \A u \in Positions(trace[i], "setUnsubscribe") : c < u
            /\ (phase[i] = "returned" /\ "complete" \in handlers[i])
                 => Count(trace[i], "complete") = 1

C6_Witness ==
    \E i \in Ids :
        /\ observable.kind = "from"
        /\ Len(observable.values) = 2
        /\ phase[i] = "returned"
        /\ handlers[i] = HandlerNames
        /\ Count(trace[i], "complete") = 1
        /\ Count(trace[i], "next") = 2

\* the same for the empty array
C6_WitnessEmpty ==
    \E i \in Ids :
        /\ observable.kind = "from"
        /\ observable.values = <<>>
        /\ phase[i] = "returned"
        /\ Count(trace[i], "complete") = 1

\* C7: constructing the Observable runs no subscribe function; after n
\* subscribe() calls the subscribe function has run n times, the k-th time
\* with the k-th Observer constructed.
C7_FnOncePerSubscribe ==
    /\ Len(fnArgs) = subscribeCalls
    /\ nObs = subscribeCalls
    /\ \A k \in DOMAIN fnArgs : fnArgs[k] = k
    /\ \A k \in DOMAIN fnArgs : phase[k] # "none"

C7_Witness ==
    /\ observable.kind = "from"
    /\ subscribeCalls = 2
    /\ fnArgs = <<1, 2>>
    /\ phase[1] = "returned"
    /\ phase[2] = "returned"

\* C8: after one subscription.unsubscribe() call the Observer is closed, and
\* after two calls it is closed just the same.
C8_UnsubscribeIdempotent ==
    \A j \in Ids : unsubCalls[j] >= 1 => isUnsubscribed[j]

C8_Witness ==
    \E j \in Ids : unsubCalls[j] = 2 /\ isUnsubscribed[j]

\* C9: the teardown has been invoked as many times as Observer.unsubscribe()
\* has been executed after setUnsubscribe.
C9_TeardownEveryUnsubscribe ==
    \A i \in Ids :
        TeardownCount(i) =
            Cardinality({u \in Positions(trace[i], "unsubscribe") :
                            \E s \in Positions(trace[i], "setUnsubscribe") : s < u})

\* the teardown ran twice on an Observer that the stream's completion closed
C9_Witness ==
    \E i \in Ids :
        /\ TeardownCount(i) >= 2
        /\ Count(trace[i], "complete") = 1
        /\ unsubCalls[i] >= 1

\* C10 (as stated): subscription.unsubscribe() on a stream that has already
\* completed or errored invokes no handler and runs the teardown once more,
\* the teardown having run already when the stream closed.
C10_UnsubscribeAfterEnd ==
    [][\A j \in Ids :
          (EndedBySignal(j) /\ unsubCalls'[j] = unsubCalls[j] + 1)
          => /\ HandlerEvents(trace'[j]) = HandlerEvents(trace[j])
             /\ Count(trace[j], "teardown") >= 1
             /\ Count(trace'[j], "teardown") = Count(trace[j], "teardown") + 1]_vars

\* the closed flag that the calls made so far give an Observer, whatever its
\* handler record: some error(), complete() or unsubscribe() has been called
ClosedByCalls(i) ==
    \/ \E k \in DOMAIN calls[i] : calls[i][k].sig \in {"error", "complete", "unsubscribe"}
    \/ unsubCalls[i] > 0

\* C11 (as stated): with an empty handler record and with all three handlers
\* the Observer has, between the producer's calls, the closed flag that the
\* calls alone determine; with no handlers nothing is delivered or raised,
\* and the teardown has run once the Observer is closed.
C11_HandlersDoNotMatter ==
    \A i \in Ids :
        /\ (handlers[i] \in {{}, HandlerNames} /\ phase[i] # "none" /\ hnd = NoHandler)
             => isUnsubscribed[i] = ClosedByCalls(i)
        /\ (handlers[i] = {} /\ phase[i] # "none") =>
             /\ HandlerEvents(trace[i]) = <<>>
             /\ Count(trace[i], "throw") = 0
             /\ (isUnsubscribed[i] /\ phase[i] = "returned") => TeardownCount(i) >= 1

\* the part of C11 that is about the closed flag alone, for handlers that return
C11_ClosedFlagPart ==
    \A i \in Ids :
        (handlers[i] \in {{}, HandlerNames} /\ phase[i] # "none" /\ hnd = NoHandler
            /\ Count(trace[i], "throw") = 0)
        => isUnsubscribed[i] = ClosedByCalls(i)

\* the step is a call `sig` of the subscribe function on Observer i
IsCall(i, sig) ==
    /\ Len(calls'[i]) = Len(calls[i]) + 1
    /\ Last(calls'[i]).sig = sig

\* C12: error(e) on an open Observer without an error handler invokes no
\* handler and raises nothing, and closes the Observer; the next and complete
\* calls that follow are not delivered.
C12_UnhandledErrorDropped ==
    /\ [][\A i \in Ids :
            (IsCall(i, "error") /\ ~isUnsubscribed[i] /\ "error" \notin handlers[i])
            => /\ isUnsubscribed'[i]
               /\ hnd' = NoHandler
               /\ HandlerEvents(trace'[i]) = HandlerEvents(trace[i])
               /\ Count(trace'[i], "throw") = Count(trace[i], "throw")
               /\ phase' = phase]_vars
    /\ [][\A i \in Ids :
            (/\ "error" \notin handlers[i]
             /\ \E k \in DOMAIN calls[i] : calls[i][k].sig = "error"
             /\ (IsCall(i, "next") \/ IsCall(i, "complete")))
            => (trace'[i] = trace[i] /\ hnd' = hnd)]_vars

C12_Witness ==
    \E i \in Ids :
        /\ handlers[i] = {"next", "complete"}
        /\ Len(calls[i]) = 3
        /\ calls[i][1].sig = "error"
        /\ calls[i][2].sig = "next"
        /\ calls[i][3].sig = "complete"
        /\ unsubCalls[i] = 0
        /\ isUnsubscribed[i]
        /\ HandlerEvents(trace[i]) = <<>>

\* ---- several subscriptions of a producer that emits later ----------------
\* a subscribe function that only schedules: after subscribe() has returned
\* its callbacks emit the mock requests, then complete() or error()
LaterMayCall(i, op) ==
    /\ Len(calls[i]) < Len(FromBody(requestsMock))
    /\ \/ op = FromBody(requestsMock)[Len(calls[i]) + 1]
       \/ Len(calls[i]) = Len(requestsMock) /\ op = Op("error", 0)

\* subscriptions of Observable.from(requestsMock), or of the scheduling
\* producer whose emissions to different Observers interleave; handlers are
\* all present or all absent, and return
NextDeferred ==
    \/ from(requestsMock)
    \/ NewObservable
    \/ \E h \in {{}, HandlerNames} : subscribe(h)
    \/ \E i \in Ids, op \in Ops : observable.kind = "from" /\ SubscribeFnCall(i, op)
    \/ \E i \in Ids : subscribeReturn(i)
    \/ \E i \in Ids, op \in Ops : LaterMayCall(i, op) /\ DeferredCall(i, op)
    \/ HandlerReturn
    \/ \E j \in Ids : unsubCalls[j] < MaxUnsub /\ SubscriptionUnsubscribe(j)

SpecDeferred == Init /\ [][NextDeferred]_vars

\* the step is an operation on the subscription of Observer i
ActsOn(i) ==
    \/ calls'[i] # calls[i]
    \/ unsubCalls'[i] # unsubCalls[i]
    \/ phase'[i] # phase[i]
    \/ hnd # NoHandler /\ hnd.obs = i /\ hnd' = NoHandler

\* what the claims observe of Observer j
ObserverState(j) ==
    <<handlers[j], isUnsubscribed[j], _unsubscribe[j], trace[j]>>

\* C13: an operation on one subscription (a signal to its Observer, the
\* return of its handler, its unsubscribe(), its creation) leaves every other
\* Observer unchanged: closed flag, installed teardown, teardown invocations
\* and delivered values.
C13_Isolated ==
    [][\A i \in Ids : ActsOn(i) =>
          \A j \in Ids \ {i} : ObserverState(j)' = ObserverState(j)]_vars

C13_Witness ==
    /\ observable.kind = "custom"
    /\ unsubCalls[1] > 0
    /\ isUnsubscribed[1]
    /\ TeardownCount(1) = unsubCalls[1]
    /\ Len(calls[1]) = 1
    /\ ~isUnsubscribed[2]
    /\ NextLog(trace[2]) = requestsMock
    /\ TeardownCount(2) = 0

\* the step is subscription.unsubscribe() called by the executing handler of
\* Observer i
UnsubscribeInHandler(i) ==
    /\ hnd # NoHandler
    /\ hnd.obs = i
    /\ unsubCalls'[i] = unsubCalls[i] + 1

\* a handler of Observer i is executing and has called unsubscribe()
ClosedInHandler(i) == hnd # NoHandler /\ hnd.obs = i /\ isUnsubscribed[i]

\* no handler of Observer i was invoked after an execution of unsubscribe()
SilentAfterUnsubscribe(i) ==
    \A k \in Positions(trace[i], "unsubscribe"), m \in DOMAIN trace[i] :
        IsHandlerEv(trace[i][m]) => m < k

\* C14: unsubscribe() called while a handler of the Observer executes closes
\* the Observer and leaves the handler executing, which can then return; from
\* then on no next, error or complete call invokes a handler of that Observer.
C14_UnsubscribeInsideHandler ==
    /\ [][\A i \in Ids : UnsubscribeInHandler(i) =>
            (hnd' = hnd /\ isUnsubscribed'[i])]_vars
    /\ [](\A i \in Ids : ClosedInHandler(i) => ENABLED HandlerReturn)
    /\ [][\A i \in Ids :
            (/\ \E k \in DOMAIN trace[i] : trace[i][k].ev = "unsubscribe"
             /\ (IsCall(i, "next") \/ IsCall(i, "error") \/ IsCall(i, "complete")))
            => (trace'[i] = trace[i] /\ hnd' = hnd)]_vars
    /\ \A i \in Ids : [](ClosedInHandler(i) => []SilentAfterUnsubscribe(i))

\* the next handler has called unsubscribe() and is still executing
C14_Witness ==
    \E i \in Ids :
        /\ ClosedInHandler(i)
        /\ hnd.sig = "next"
        /\ unsubCalls[i] = 1
        /\ trace[i] = <<Ev("setUnsubscribe", 0), Ev("next", 1),
                        Ev("unsubscribe", 0), Ev("teardown", 0)>>

\* ... and afterwards next(2) and complete() were called, reaching no handler
C14_WitnessLater ==
    \E i \in Ids :
        /\ hnd = NoHandler
        /\ handlers[i] = HandlerNames
        /\ unsubCalls[i] = 1
        /\ calls[i] = <<Op("next", 1), Op("next", 2), Op("complete", 0)>>
        /\ trace[i] = <<Ev("setUnsubscribe", 0), Ev("next", 1),
                        Ev("unsubscribe", 0), Ev("teardown", 0)>>

\* C15: in every run of subscribe() setUnsubscribe is executed exactly once
\* (at most once at any time, once when subscribe() has returned), and every
\* handler invocation and every execution of Observer.unsubscribe() on the
\* Observer comes after it.
C15_InstalledFirst ==
    \A i \in Ids :
        /\ Count(trace[i], "setUnsubscribe") <= 1
        /\ phase[i] = "returned" => Count(trace[i], "setUnsubscribe") = 1
        /\ \A k \in DOMAIN trace[i] :
              (IsHandlerEv(trace[i][k]) \/ trace[i][k].ev = "unsubscribe")
              => \E m \in 1..(k - 1) : trace[i][m].ev = "setUnsubscribe"

\* the part of C15 that is about the number of installations
C15_InstalledOnce ==
    \A i \in Ids :
        /\ Count(trace[i], "setUnsubscribe") <= 1
        /\ phase[i] = "returned" => Count(trace[i], "setUnsubscribe") = 1

\* the step ends an error() or complete() call on Observer i that found it
\* open: the call had no handler to invoke, or its handler returns or throws
EndsTerminalCall(i) ==
    \/ /\ ~isUnsubscribed[i]
       /\ IsCall(i, "error") \/ IsCall(i, "complete")
       /\ hnd' = NoHandler
    \/ /\ hnd # NoHandler
       /\ hnd.obs = i
       /\ hnd.sig \in {"error", "complete"}
       /\ hnd' = NoHandler

\* C16: when an error() or complete() call on an open Observer ends, the
\* Observer is closed: with the handler absent, with a handler that returns,
\* and with a handler that throws.
C16_TerminalAlwaysCloses ==
    [][\A i \in Ids : EndsTerminalCall(i) => isUnsubscribed'[i]]_vars

\* the part of C16 for calls that end without an exception
C16_ClosesUnlessThrown ==
    [][\A i \in Ids :
          (EndsTerminalCall(i) /\ Count(trace'[i], "throw") = Count(trace[i], "throw"))
          => isUnsubscribed'[i]]_vars

\* what the usage program prints: handler invocations and teardown runs
IsOutputEv(x) == IsHandlerEv(x) \/ x.ev = "teardown"
Output(i) == SelectSeq(trace[i], IsOutputEv)

UsageOutput ==
    <<Ev("next", requestsMock[1]), Ev("next", requestsMock[2]),
      Ev("complete", 0), Ev("teardown", 0)>>

\* Observer i belongs to the usage program: Observable.from(requestsMock)
\* subscribed with the three handlers, which return
IsUsage(i) ==
    /\ observable = [kind |-> "from", values |-> requestsMock]
    /\ phase[i] # "none"
    /\ handlers[i] = HandlerNames
    /\ Count(trace[i], "throw") = 0

IsPrefix(s, t) == Len(s) <= Len(t) /\ \A k \in DOMAIN s : s[k] = t[k]

\* C17: the usage program prints the next handler with request 1, with
\* request 2, the complete handler, and after its one subscription.unsubscribe()
\* the teardown, once; until then no teardown, and never the error handler.
C17_UsageOutput ==
    \A i \in Ids : IsUsage(i) =>
        /\ unsubCalls[i] <= 1 => IsPrefix(Output(i), UsageOutput)
        /\ unsubCalls[i] = 0 => TeardownCount(i) = 0
        /\ unsubCalls[i] = 1 => Output(i) = UsageOutput
        /\ Count(trace[i], "error") = 0

C17_Witness ==
    /\ IsUsage(1)
    /\ unsubCalls[1] = 1
    /\ trace[1] = <<Ev("next", 1), Ev("next", 2), Ev("complete", 0),
                    Ev("unsubscribe", 0), Ev("setUnsubscribe", 0),
                    Ev("unsubscribe", 0), Ev("teardown", 0)>>

\* the step is a next, error or complete call on Observer i
IsSignalCall(i) == IsCall(i, "next") \/ IsCall(i, "error") \/ IsCall(i, "complete")

\* the step is an unsubscribe() call on Observer i: by the subscribe function
\* on the Observer, or by the consumer on the Subscription
IsUnsubscribeCall(i) == IsCall(i, "unsubscribe") \/ unsubCalls'[i] = unsubCalls[i] + 1

C18_TeardownOnClosedOnlyDirect ==
    [][\A i \in Ids :
          (isUnsubscribed[i] /\ TeardownCount(i)' # TeardownCount(i))
          => IsUnsubscribeCall(i)]_vars

\* an error or complete handler of Observer i is executing
InTerminalHandler(i) ==
    hnd # NoHandler /\ hnd.obs = i /\ hnd.sig \in {"error", "complete"}

\* what Observer.unsubscribe appends to the log of Observer i
CloseEvents(i) ==
    <<Ev("unsubscribe", 0)>> \o (IF _unsubscribe[i] THEN <<Ev("teardown", 0)>> ELSE <<>>)

\* C19 as stated: during the whole execution of an error or complete handler
\* the closed flag is false and nothing has closed the Observer since the
\* handler was invoked (the handler's invocation is the last event of the
\* log); when the handler returns the flag is set and the teardown, if
\* installed, runs.
C19_HandlerBeforeClose ==
    /\ [](\A i \in Ids : InTerminalHandler(i) =>
            (~isUnsubscribed[i] /\ Last(trace[i]).ev = hnd.sig))
    /\ [][\A i \in Ids :
            (InTerminalHandler(i) /\ hnd' = NoHandler
               /\ Count(trace'[i], "throw") = Count(trace[i], "throw"))
            => (isUnsubscribed'[i] /\ trace'[i] = trace[i] \o CloseEvents(i))]_vars

\* C19, amended: when error() or complete() invokes the handler the closed
\* flag is false and the invocation is the last event; while the handler
\* executes, only an unsubscribe() call made by the handler changes the
\* Observer; when the handler returns the flag is set and the teardown, if
\* installed, runs.
C19_HandlerBeforeCloseAmended ==
    /\ [][\A i \in Ids :
            (~InTerminalHandler(i) /\ InTerminalHandler(i)')
            => (/\ ~isUnsubscribed[i] /\ ~isUnsubscribed'[i]
                /\ trace'[i] = Append(trace[i], Ev(hnd'.sig, Last(calls'[i]).val)))]_vars
    /\ [][\A i \in Ids :
            (InTerminalHandler(i) /\ hnd' = hnd /\ ObserverState(i)' # ObserverState(i))
            => UnsubscribeInHandler(i)]_vars
    /\ [][\A i \in Ids :
            (InTerminalHandler(i) /\ hnd' = NoHandler
               /\ Count(trace'[i], "throw") = Count(trace[i], "throw"))
            => (isUnsubscribed'[i] /\ trace'[i] = trace[i] \o CloseEvents(i))]_vars

\* the complete handler executes on an open Observer with its teardown
\* installed
C19_Witness ==
    \E i \in Ids :
        /\ InTerminalHandler(i)
        /\ hnd.sig = "complete"
        /\ _unsubscribe[i]
        /\ ~isUnsubscribed[i]
        /\ TeardownCount(i) = 0

\* ... and has returned: closed, teardown run once
C19_WitnessReturned ==
    \E i \in Ids :
        /\ hnd = NoHandler
        /\ isUnsubscribed[i]
        /\ unsubCalls[i] = 0
        /\ trace[i] = <<Ev("setUnsubscribe", 0), Ev("complete", 0),
                        Ev("unsubscribe", 0), Ev("teardown", 0)>>

====
